---- MODULE Spec2Model ----
(***************************************************************************)
(* A model of binanceRestClient.async_tools.BinanceKlinesFetcher: the      *)
(* constructor, the resolution of the time window, the per-pair retry      *)
(* tasks run by fetch_pairs_klines on one asyncio event loop, and the      *)
(* reconstruction pass fill_missing_pairs; and of                          *)
(* binanceRestClient.client.BinanceRestClient: the canonical order of the  *)
(* request parameters, the signature, the dispatcher _request and stop.    *)
(*                                                                         *)
(* Python values are modelled as follows.                                  *)
(*   - An optional number (int | None) is a sequence: <<>> is None and     *)
(*     <<v>> is the number v.                                              *)
(*   - A pair identifier such as "ETH-USDT" is the sequence of its         *)
(*     characters, so that split("-") and the substring test `in` are      *)
(*     computed as Python computes them.                                   *)
(*   - A JSON scalar is a record [t, v, n]: t = "str" is the numeral       *)
(*     string of the integer v, t = "int" the integer v, t = "bad" a       *)
(*     string that is no numeral; t = "float" is the float v + n * 10^-9.  *)
(*   - self.responses is an insertion-ordered dict: a sequence of          *)
(*     [pair, series] entries with distinct pairs.                         *)
(***************************************************************************)
EXTENDS Integers, Sequences, FiniteSets, TLC

VARIABLES
    pairs,          \* self.pairs
    fromTime,       \* self.fromTime (optional)
    toTime,         \* self.toTime (optional)
    n_mins,         \* self.n_mins (optional)
    pair_retries,   \* self.pair_retries
    init_backoff,   \* self.init_backoff
    now,            \* the clock read by get_backwards_range, in ms
    fpc,            \* where the caller of the fetcher stands
    window,         \* the (fromTime, toTime) get_backwards_range returned, or <<>>
    session,        \* the aiohttp.ClientSession of fetch_pairs_klines
    tpc,            \* tpc[i]: where the task of pairs[i] stands
    attempt,        \* attempt[i]: the loop variable of the task's for loop
    log,            \* log[i]: what the task of pairs[i] has done so far
    body,           \* body[i]: the decoded JSON body the task received, if any
    responses,      \* self.responses
    before,         \* self.responses as fill_missing_pairs found it
    donorOf,        \* the donor fill_missing_pairs used for each pair it rewrote
    api_key,        \* BinanceRestClient.api_key (optional text)
    api_secret,     \* BinanceRestClient.api_secret (optional text)
    sigterm,        \* BinanceRestClient.sigterm
    csession,       \* BinanceRestClient.session, the requests session
    closed,         \* the ids of the sessions close() has been called on
    response,       \* BinanceRestClient.response, or <<>> while the attribute is unset
    call,           \* the arguments of the last call of _request, or <<>>
    outcome,        \* how the last call of _request ended
    sent,           \* the last HTTP request handed to the session, or <<>>
    nsent,          \* the number of HTTP requests handed to the session
    ncalls,         \* the number of calls of _request
    report,         \* how the last call of req_weight_cost ended, or <<>>
    data,           \* a parameter dict a caller holds (insertion-ordered)
    applied         \* the calls of _order_params and _generate_signature made on it

fetcherVars == <<pairs, fromTime, toTime, n_mins, pair_retries, init_backoff, now, fpc,
                 window, session, tpc, attempt, log, body, responses, before, donorOf>>

clientVars == <<api_key, api_secret, sigterm, csession, closed, response, call, outcome,
                sent, nsent, ncalls, report, data, applied>>

vars == <<fetcherVars, clientVars>>

-----------------------------------------------------------------------------
(* Bounds of the model. *)

MaxRetries == 2

MaxBackoff == 2

-----------------------------------------------------------------------------
(* Python values. *)

None == <<>>

Some(v) == <<v>>

\* Python truthiness of an optional number: None and 0 are falsy.
Truthy(o) == o # None /\ o[1] # 0

StrV(v) == [t |-> "str", v |-> v, n |-> 0]

IntV(v) == [t |-> "int", v |-> v, n |-> 0]

Bad == [t |-> "bad", v |-> 0, n |-> 0]

Flt(v, n) == [t |-> "float", v |-> v, n |-> n]

\* float(x) raises ValueError on a string that is no numeral.
FloatRaises(x) == x.t = "bad"

\* float(x): the float of a numeral string or of a number.
Float(x) == Flt(x.v, x.n)

Pow2(k) == 2 ^ k

Nano == 1000000000

\* round(a / b, 9) for integer-valued floats a, b with b # 0, to the nearest
\* multiple of 10^-9: the integer part and the rounded fraction apart, so that
\* no intermediate value leaves the 32-bit range.
RoundDiv9(a, b) ==
    LET q == a.v \div b.v
        r == a.v % b.v
        f == (r * Nano) \div b.v
        rest == (r * Nano) % b.v
        up == IF 2 * rest > b.v THEN 1 ELSE 0
    IN  IF f + up = Nano THEN Flt(q + 1, 0) ELSE Flt(q, f + up)

-----------------------------------------------------------------------------
(* Pair identifiers. *)

ETH == <<"E", "T", "H">>

BTC == <<"B", "T", "C">>

ADA == <<"A", "D", "A">>

USDT == <<"U", "S", "D", "T">>

Sep == "-"

Pair(base, quote) == base \o <<Sep>> \o quote

ETH_USDT == Pair(ETH, USDT)

BTC_USDT == Pair(BTC, USDT)

ADA_USDT == Pair(ADA, USDT)

ADA_ETH == Pair(ADA, ETH)

ETH_BTC == Pair(ETH, BTC)

ETH_ADA == Pair(ETH, ADA)

\* p.split("-")[0]: the characters before the first separator.
RECURSIVE SplitFirst(_)
SplitFirst(p) ==
    IF p = <<>> \/ Head(p) = Sep THEN <<>> ELSE <<Head(p)>> \o SplitFirst(Tail(p))

\* Python's `s in k` on strings: s is a contiguous substring of k.
Contains(s, k) ==
    \E i \in 0..(Len(k) - Len(s)) : SubSeq(k, i + 1, i + Len(s)) = s

\* The lists of pairs a fetcher is constructed with.
PairLists ==
    { <<ETH_USDT, BTC_USDT, ADA_ETH>>,
      <<ETH_USDT, ETH_BTC, BTC_USDT>>,
      <<ETH_USDT, ADA_USDT, ADA_ETH>>,
      <<ETH_USDT, ETH_BTC, ETH_ADA>>,
      <<BTC_USDT, ADA_ETH>>,
      <<ETH_USDT>> }

-----------------------------------------------------------------------------
(* Response bodies of the klines endpoint. *)

\* One upstream row: open time, open, high, low, close, volume, close time.
KRow(ot, o, h, l, c, ct) == <<IntV(ot), StrV(o), StrV(h), StrV(l), StrV(c), StrV(9), IntV(ct)>>

ListBody(rows) == [kind |-> "list", rows |-> rows]

BodyOne == ListBody(<<KRow(0, 3, 3, 1, 2, 59)>>)

BodyTwo == ListBody(<<KRow(0, 1, 2, 1, 2, 59), KRow(60, 2, 3, 2, 3, 119)>>)

BodyEmpty == ListBody(<<>>)

\* A single JSON object, such as {"code": -1121, "msg": "Invalid symbol."}.
BodyDict == [kind |-> "dict", rows |-> <<>>]

\* A row with fewer than 7 fields.
BodyShort == ListBody(<<<<IntV(0), StrV(1), StrV(2)>>>>)

\* A row whose open price is no numeral.
BodyNonNumeric == ListBody(<<<<IntV(0), Bad, StrV(2), StrV(1), StrV(2), StrV(9), IntV(59)>>>>)

Bodies == {BodyOne, BodyTwo, BodyEmpty, BodyDict, BodyShort, BodyNonNumeric}

NoBody == [kind |-> "none", rows |-> <<>>]

-----------------------------------------------------------------------------
(* self.responses, an insertion-ordered dict. *)

Keys(d) == {d[j].pair : j \in 1..Len(d)}

HasKey(d, p) == \E j \in 1..Len(d) : d[j].pair = p

\* d[p], for a key p of d.
Get(d, p) == d[CHOOSE j \in 1..Len(d) : d[j].pair = p].series

\* d[p] = s: an existing key keeps its place, a new key goes last.
SetItem(d, p, s) ==
    IF HasKey(d, p)
    THEN [j \in 1..Len(d) |-> IF d[j].pair = p THEN [pair |-> p, series |-> s] ELSE d[j]]
    ELSE Append(d, [pair |-> p, series |-> s])

-----------------------------------------------------------------------------
(* The constructor and the time window. *)

\* The configurations a fetcher is asked for by the window claims.
OptFrom == {None, Some(0), Some(10)}

OptTo == {None, Some(0), Some(20)}

OptMins == {None, Some(0), Some(5)}

Clock0 == 1000000

Clocks == {Clock0, Clock0 + 1}

DefaultTime == Some(0)

DefaultMins == Some(5)

HalfSecond == 500

MinuteMs == 60000

\* A check that takes either end of the window for the whole window.
InitRaisesEitherEnd(ft, tt, nm) == ~(Truthy(ft) \/ Truthy(tt)) /\ ~Truthy(nm)

\* __init__ raises ValueError: neither (fromTime and toTime) nor n_mins is truthy.
InitRaises(ft, tt, nm) == ~(Truthy(ft) /\ Truthy(tt)) /\ ~Truthy(nm)

\* get_backwards_range raises ValueError.
RangeRaises(ft, tt, nm) == ~Truthy(nm) /\ ~(Truthy(ft) /\ Truthy(tt))

\* The window get_backwards_range returns when it does not raise, at clock t.
GetBackwardsRange(ft, tt, nm, t) ==
    IF ~Truthy(nm)
    THEN <<ft[1], tt[1]>>
    ELSE <<(t - HalfSecond) - nm[1] * MinuteMs, t - HalfSecond>>

Tasks == 1..Len(pairs)

NoTasks == [i \in Tasks |-> "none"]

\* BinanceKlinesFetcher(pairs, fromTime, toTime, n_mins, pair_retries, init_backoff).
Construct ==
    /\ UNCHANGED clientVars
    /\ fpc = "init"
    /\ fpc' = IF InitRaises(fromTime, toTime, n_mins) THEN "ctor_raised" ELSE "ready"
    /\ responses' = <<>>
    /\ UNCHANGED <<pairs, fromTime, toTime, n_mins, pair_retries, init_backoff, now,
                   window, session, tpc, attempt, log, body, before, donorOf>>

\* A call of get_backwards_range on a constructed fetcher.
CallGetBackwardsRange ==
    /\ UNCHANGED clientVars
    /\ fpc = "ready"
    /\ IF RangeRaises(fromTime, toTime, n_mins)
       THEN fpc' = "range_raised" /\ window' = None
       ELSE fpc' = "ranged" /\ window' = GetBackwardsRange(fromTime, toTime, n_mins, now)
    /\ UNCHANGED <<pairs, fromTime, toTime, n_mins, pair_retries, init_backoff, now,
                   session, tpc, attempt, log, body, responses, before, donorOf>>

\* The caller assigns the public attribute n_mins of a constructed fetcher.
AssignNMins(nm) ==
    /\ UNCHANGED clientVars
    /\ fpc = "ready"
    /\ nm # n_mins
    /\ n_mins' = nm
    /\ UNCHANGED <<pairs, fromTime, toTime, pair_retries, init_backoff, now, fpc,
                   window, session, tpc, attempt, log, body, responses, before, donorOf>>

-----------------------------------------------------------------------------
(* get_single_pair: the task of one pair. *)

Ev(e, k, w) == [ev |-> e, k |-> k, w |-> w]

\* A loop that makes one iteration too many.
RetryLimitPlusOne == pair_retries + 1

\* range(self.pair_retries): the number of iterations of the retry loop.
RetryLimit == IF pair_retries > 0 THEN pair_retries ELSE 0

\* A backoff that starts one power of two too high.
BackoffNextPower(k) == init_backoff * Pow2(k + 1)

\* self.init_backoff * (2**attempt)
Backoff(k) == init_backoff * Pow2(k)

\* The comprehension of lines 103-105 raises: a row has no r[6] (IndexError) or
\* one of r[1..4] is no numeral (ValueError).
ProjectRaises(rows) ==
    \E j \in 1..Len(rows) :
        \/ Len(rows[j]) < 7
        \/ \E c \in 2..5 : FloatRaises(rows[j][c])

\* [float(r[1]), float(r[2]), float(r[3]), float(r[4]), r[6]] for r in resp
Project(rows) ==
    [j \in 1..Len(rows) |->
        <<Float(rows[j][2]), Float(rows[j][3]), Float(rows[j][4]), Float(rows[j][5]),
          rows[j][7]>>]

\* Lines 99-100: a dict body becomes [].
Normalise(b) == IF b.kind = "dict" THEN <<>> ELSE b.rows

\* A task that records its result only when it has rows.
RecordUnlessEmpty(d, p, s) == IF s = <<>> THEN d ELSE SetItem(d, p, s)

\* self.responses[pair] = resp
Record(d, p, s) == SetItem(d, p, s)

\* The event loop runs the tasks gather has just scheduled, in creation order
\* and each up to its first await, before it polls the network: no answer,
\* timeout or error is delivered to a task while another has yet to start.
AllStarted == \A j \in Tasks : tpc[j] # "created"

\* The task's first step: it enters the loop and issues attempt 0, or, with no
\* iteration to make, falls to the loop's else clause and records [].
Start(i) ==
    /\ UNCHANGED clientVars
    /\ tpc[i] = "created"
    /\ \A j \in 1..(i - 1) : tpc[j] # "created"
    /\ IF RetryLimit = 0
       THEN /\ tpc' = [tpc EXCEPT ![i] = "done"]
            /\ log' = [log EXCEPT ![i] = Append(@, Ev("exhausted", 0, 0))]
            /\ responses' = Record(responses, pairs[i], <<>>)
       ELSE /\ tpc' = [tpc EXCEPT ![i] = "request"]
            /\ log' = [log EXCEPT ![i] = Append(@, Ev("attempt", 0, 0))]
            /\ UNCHANGED responses
    /\ attempt' = [attempt EXCEPT ![i] = 0]
    /\ UNCHANGED <<pairs, fromTime, toTime, n_mins, pair_retries, init_backoff, now,
                   fpc, window, session, body, before, donorOf>>

\* The request of the current attempt is answered and response.json() decodes b:
\* break, normalise, project, record. The projection may raise out of the task.
Respond(i, b) ==
    /\ UNCHANGED clientVars
    /\ tpc[i] = "request"
    /\ AllStarted
    /\ body' = [body EXCEPT ![i] = b]
    /\ LET resp == Normalise(b)
       IN  IF resp # <<>> /\ ProjectRaises(resp)
           THEN /\ tpc' = [tpc EXCEPT ![i] = "raised"]
                /\ log' = [log EXCEPT ![i] = Append(@, Ev("raise", attempt[i], 0))]
                /\ UNCHANGED responses
           ELSE /\ tpc' = [tpc EXCEPT ![i] = "done"]
                /\ log' = [log EXCEPT ![i] = Append(@, Ev("ok", attempt[i], 0))]
                /\ responses' = Record(responses, pairs[i],
                                       IF resp # <<>> THEN Project(resp) ELSE resp)
    /\ UNCHANGED <<pairs, fromTime, toTime, n_mins, pair_retries, init_backoff, now,
                   fpc, window, session, attempt, before, donorOf>>

\* A timeout that issues the next attempt at once, without the backoff sleep.
TimeoutNoWait(i) ==
    /\ UNCHANGED clientVars
    /\ tpc[i] = "request"
    /\ AllStarted
    /\ attempt[i] + 1 < RetryLimit
    /\ attempt' = [attempt EXCEPT ![i] = @ + 1]
    /\ log' = [log EXCEPT ![i] = @ \o <<Ev("timeout", attempt[i], 0),
                                         Ev("attempt", attempt[i] + 1, 0)>>]
    /\ UNCHANGED <<pairs, fromTime, toTime, n_mins, pair_retries, init_backoff, now,
                   fpc, window, session, tpc, body, responses, before, donorOf>>

\* The current attempt ends in asyncio.TimeoutError: log, then sleep the backoff.
Timeout(i) ==
    /\ UNCHANGED clientVars
    /\ tpc[i] = "request"
    /\ AllStarted
    /\ tpc' = [tpc EXCEPT ![i] = "sleep"]
    /\ log' = [log EXCEPT ![i] = @ \o <<Ev("timeout", attempt[i], 0),
                                         Ev("wait", attempt[i], Backoff(attempt[i]))>>]
    /\ UNCHANGED <<pairs, fromTime, toTime, n_mins, pair_retries, init_backoff, now,
                   fpc, window, session, attempt, body, responses, before, donorOf>>

\* An error handler without its break: it falls through to the backoff sleep.
OtherErrorNoBreak(i) ==
    /\ UNCHANGED clientVars
    /\ tpc[i] = "request"
    /\ AllStarted
    /\ tpc' = [tpc EXCEPT ![i] = "sleep"]
    /\ log' = [log EXCEPT ![i] = @ \o <<Ev("error", attempt[i], 0),
                                         Ev("wait", attempt[i], Backoff(attempt[i]))>>]
    /\ UNCHANGED <<pairs, fromTime, toTime, n_mins, pair_retries, init_backoff, now,
                   fpc, window, session, attempt, body, responses, before, donorOf>>

\* The current attempt ends in any other Exception: resp = [], break, record.
OtherError(i) ==
    /\ UNCHANGED clientVars
    /\ tpc[i] = "request"
    /\ AllStarted
    /\ tpc' = [tpc EXCEPT ![i] = "done"]
    /\ log' = [log EXCEPT ![i] = Append(@, Ev("error", attempt[i], 0))]
    /\ responses' = Record(responses, pairs[i], <<>>)
    /\ UNCHANGED <<pairs, fromTime, toTime, n_mins, pair_retries, init_backoff, now,
                   fpc, window, session, attempt, body, before, donorOf>>

\* The backoff sleep ends: the next iteration issues the next attempt, or the
\* loop is exhausted and its else clause records [].
WakeUp(i) ==
    /\ UNCHANGED clientVars
    /\ tpc[i] = "sleep"
    /\ IF attempt[i] + 1 < RetryLimit
       THEN /\ tpc' = [tpc EXCEPT ![i] = "request"]
            /\ attempt' = [attempt EXCEPT ![i] = @ + 1]
            /\ log' = [log EXCEPT ![i] = Append(@, Ev("attempt", attempt[i] + 1, 0))]
            /\ UNCHANGED responses
       ELSE /\ tpc' = [tpc EXCEPT ![i] = "done"]
            /\ log' = [log EXCEPT ![i] = Append(@, Ev("exhausted", attempt[i], 0))]
            /\ responses' = Record(responses, pairs[i], <<>>)
            /\ UNCHANGED attempt
    /\ UNCHANGED <<pairs, fromTime, toTime, n_mins, pair_retries, init_backoff, now,
                   fpc, window, session, body, before, donorOf>>

-----------------------------------------------------------------------------
(* fetch_pairs_klines: the session, the tasks and the gather. *)

Finished(i) == tpc[i] \in {"done", "raised"}

\* fetch_pairs_klines up to its await of gather: responses reset, window
\* resolved, session opened, one task created per pair.
FetchPairsKlines ==
    /\ UNCHANGED clientVars
    /\ fpc = "ready"
    /\ responses' = <<>>
    /\ IF RangeRaises(fromTime, toTime, n_mins)
       THEN /\ fpc' = "fetch_raised"
            /\ UNCHANGED <<window, session, tpc>>
       ELSE /\ fpc' = "gather"
            /\ window' = GetBackwardsRange(fromTime, toTime, n_mins, now)
            /\ session' = "open"
            /\ tpc' = [i \in Tasks |-> "created"]
    /\ UNCHANGED <<pairs, fromTime, toTime, n_mins, pair_retries, init_backoff, now,
                   attempt, log, body, before, donorOf>>

\* gather(*tasks) returns once every task is done; the session is closed and
\* self.responses is returned.
GatherReturn ==
    /\ UNCHANGED clientVars
    /\ fpc = "gather"
    /\ \A i \in Tasks : tpc[i] = "done"
    /\ fpc' = "returned"
    /\ session' = "closed"
    /\ UNCHANGED <<pairs, fromTime, toTime, n_mins, pair_retries, init_backoff, now,
                   window, tpc, attempt, log, body, responses, before, donorOf>>

\* The exception of gather leaves the call with the session left open.
GatherRaiseLeak ==
    /\ UNCHANGED clientVars
    /\ fpc = "gather"
    /\ \E i \in Tasks : tpc[i] = "raised"
    /\ fpc' = "fetch_raised"
    /\ UNCHANGED <<pairs, fromTime, toTime, n_mins, pair_retries, init_backoff, now,
                   window, session, tpc, attempt, log, body, responses, before, donorOf>>

\* gather(*tasks), without return_exceptions, raises the first exception a task
\* raised as soon as it is raised; the other tasks are not cancelled. The
\* exception leaves the async with block, closing the session, and the call.
\* The tasks still running keep their steps: what a request in flight on the
\* closed session ends in is left open (an answer, a timeout or an error).
GatherRaise ==
    /\ UNCHANGED clientVars
    /\ fpc = "gather"
    /\ \E i \in Tasks : tpc[i] = "raised"
    /\ fpc' = "fetch_raised"
    /\ session' = "closed"
    /\ UNCHANGED <<pairs, fromTime, toTime, n_mins, pair_retries, init_backoff, now,
                   window, tpc, attempt, log, body, responses, before, donorOf>>

-----------------------------------------------------------------------------
(* fill_missing_pairs. *)

REF == ETH_USDT

\* [p for p, v in self.responses.items() if not v]
RECURSIVE MissingPairs(_)
MissingPairs(d) ==
    IF d = <<>> THEN <<>>
    ELSE (IF Head(d).series = <<>> THEN <<Head(d).pair>> ELSE <<>>)
         \o MissingPairs(Tail(d))

Elems(s) == {s[j] : j \in 1..Len(s)}

\* A donor test that has lost its base condition: any fetched pair is a donor.
IsDonorAnyFetched(base, k, missing) == k \notin Elems(missing)

\* The test of line 142 on the key k for the base of a missing pair.
IsDonor(base, k, missing) == Contains(base, k) /\ k \notin Elems(missing)

\* The place in d of the first key that passes the test of line 142, or 0.
DonorIndex(d, missing, base) ==
    LET hits == {j \in 1..Len(d) : IsDonor(base, d[j].pair, missing)}
    IN  IF hits = {} THEN 0 ELSE CHOOSE j \in hits : \A h \in hits : j <= h

\* A truncation that cuts a longer donor one row short of the reference.
TruncateOneShort(v, q_l) == IF Len(v) > q_l THEN SubSeq(v, 1, q_l - 1) ELSE v

\* rows = v[:q_l] if len(v) > q_l else v
Truncate(v, q_l) == IF Len(v) > q_l THEN SubSeq(v, 1, q_l) ELSE v

\* [[round(r[0] / eth_usdt[i][0], 9), eth_usdt[i][1]] for i, r in enumerate(rows)]
BaseEth(rows, eth_usdt) ==
    [i \in 1..Len(rows) |-> <<RoundDiv9(rows[i][1], eth_usdt[i][1]), eth_usdt[i][2]>>]

\* A loop that stores the synthesized series under the donor's key.
RECURSIVE FillFromIntoDonor(_, _, _, _)
FillFromIntoDonor(d, missing, eth_usdt, m) ==
    IF m > Len(missing) THEN d
    ELSE LET p == missing[m]
             j == DonorIndex(d, missing, SplitFirst(p))
         IN  IF j = 0
             THEN FillFromIntoDonor(d, missing, eth_usdt, m + 1)
             ELSE FillFromIntoDonor(
                      SetItem(d, d[j].pair, BaseEth(Truncate(d[j].series, Len(eth_usdt)),
                                                    eth_usdt)),
                      missing, eth_usdt, m + 1)

\* The loop over missing_pairs from its m-th element on.
RECURSIVE FillFrom(_, _, _, _)
FillFrom(d, missing, eth_usdt, m) ==
    IF m > Len(missing) THEN d
    ELSE LET p == missing[m]
             j == DonorIndex(d, missing, SplitFirst(p))
         IN  IF j = 0
             THEN FillFrom(d, missing, eth_usdt, m + 1)
             ELSE FillFrom(SetItem(d, p, BaseEth(Truncate(d[j].series, Len(eth_usdt)),
                                                 eth_usdt)),
                           missing, eth_usdt, m + 1)

\* The donors the loop uses: [pair, donor] for each missing pair it rewrites.
RECURSIVE DonorsFrom(_, _, _)
DonorsFrom(d, missing, m) ==
    IF m > Len(missing) THEN <<>>
    ELSE LET j == DonorIndex(d, missing, SplitFirst(missing[m]))
         IN  (IF j = 0 THEN <<>> ELSE <<[pair |-> missing[m], donor |-> d[j].pair]>>)
             \o DonorsFrom(d, missing, m + 1)

\* fill_missing_pairs, called on a fresh fetcher or after fetch_pairs_klines has
\* returned (as fetch_and_fill_klines does): KeyError without the reference pair.
FillMissingPairs ==
    /\ UNCHANGED clientVars
    /\ fpc \in {"ready", "returned"}
    /\ before' = responses
    /\ IF ~HasKey(responses, REF)
       THEN /\ fpc' = "fill_raised"
            /\ UNCHANGED <<responses, donorOf>>
       ELSE /\ fpc' = "filled"
            /\ responses' = FillFrom(responses, MissingPairs(responses),
                                     Get(responses, REF), 1)
            /\ donorOf' = DonorsFrom(responses, MissingPairs(responses), 1)
    /\ UNCHANGED <<pairs, fromTime, toTime, n_mins, pair_retries, init_backoff, now,
                   window, session, tpc, attempt, log, body>>

-----------------------------------------------------------------------------
(* BinanceRestClient: texts and request parameters.                        *)
(*   - A text (str) is the sequence of its characters; an optional text is *)
(*     <<>> for None and <<s>> for the text s.                             *)
(*   - A parameter value is a record [t, s, i]: t = "none" is None,        *)
(*     t = "str" the text s, t = "int" the integer i.                      *)
(*   - A parameter dict is insertion-ordered: a sequence of <<key, value>> *)
(*     entries with distinct keys; so is a list of (key, value) tuples.    *)

\* Python truthiness of an optional text: None and "" are falsy.
TruthyText(o) == o # None /\ o[1] # <<>>

\* The characters the model's texts are made of, in the order of their code
\* points.
CodePoints ==
    <<"&", "(", ")", ",", "-", ".", "/", "0", "1", "2", "3", "4", "5", "6", "7", "8", "9", ":", "=",
      "A", "B", "C", "D", "E", "F", "G", "H", "I", "J", "K", "L", "M", "N", "O", "P",
      "Q", "R", "S", "T", "U", "V", "W", "X", "Y", "Z", "_",
      "a", "b", "c", "d", "e", "f", "g", "h", "i", "j", "k", "l", "m", "n", "o", "p",
      "q", "r", "s", "t", "u", "v", "w", "x", "y", "z">>

\* The rank of a character among the code points: ord(c) up to a monotone map.
Ord(c) == CHOOSE i \in 1..Len(CodePoints) : CodePoints[i] = c

\* a < b on str: lexicographic by code point, a proper prefix first.
RECURSIVE StrLess(_, _)
StrLess(a, b) ==
    IF b = <<>> THEN FALSE
    ELSE IF a = <<>> THEN TRUE
    ELSE IF Head(a) # Head(b) THEN Ord(Head(a)) < Ord(Head(b))
    ELSE StrLess(Tail(a), Tail(b))

PNone == [t |-> "none", s |-> <<>>, i |-> 0]

PStr(s) == [t |-> "str", s |-> s, i |-> 0]

PInt(i) == [t |-> "int", s |-> <<>>, i |-> i]

Digit(d) == CodePoints[Ord("0") + d]

\* str(n) for an integer n >= 0.
RECURSIVE Digits(_)
Digits(n) == IF n < 10 THEN <<Digit(n)>> ELSE Digits(n \div 10) \o <<Digit(n % 10)>>

\* str(v), as "{}".format(v) and "%s" % v give it.
Format(v) ==
    IF v.t = "none" THEN <<"N", "o", "n", "e">>
    ELSE IF v.t = "int" THEN Digits(v.i)
    ELSE v.s

SYMBOL == <<"s", "y", "m", "b", "o", "l">>

TYPE == <<"t", "y", "p", "e">>

END_TIME == <<"e", "n", "d", "T", "i", "m", "e">>

TIMESTAMP == <<"t", "i", "m", "e", "s", "t", "a", "m", "p">>

SIGNATURE == <<"s", "i", "g", "n", "a", "t", "u", "r", "e">>

LIMIT == <<"L", "I", "M", "I", "T">>

\* key in d
InDict(d, k) == \E j \in 1..Len(d) : d[j][1] = k

\* d[k]
Item(d, k) == d[CHOOSE j \in 1..Len(d) : d[j][1] = k][2]

\* d[k] = v: an existing key keeps its place, a new key goes last.
AssignItem(d, k, v) ==
    IF InDict(d, k)
    THEN [j \in 1..Len(d) |-> IF d[j][1] = k THEN <<k, v>> ELSE d[j]]
    ELSE Append(d, <<k, v>>)

\* One step of the stable sort: e goes after the entries whose key is not
\* greater than its own.
RECURSIVE InsertByKey(_, _)
InsertByKey(e, sorted) ==
    IF sorted = <<>> THEN <<e>>
    ELSE IF StrLess(e[1], Head(sorted)[1]) THEN <<e>> \o sorted
    ELSE <<Head(sorted)>> \o InsertByKey(e, Tail(sorted))

\* params.sort(key=itemgetter(0)): a stable sort by key.
RECURSIVE SortByKey(_)
SortByKey(params) ==
    IF params = <<>> THEN <<>>
    ELSE InsertByKey(params[Len(params)], SortByKey(SubSeq(params, 1, Len(params) - 1)))

NotSignature(e) == e[1] # SIGNATURE

\* The parameters in insertion order, with the signature moved last.
OrderParamsUnsorted(d) ==
    SelectSeq(d, NotSignature) \o
        (IF InDict(d, SIGNATURE) THEN <<<<SIGNATURE, Item(d, SIGNATURE)>>>> ELSE <<>>)

\* The parameters sorted by key, the signature among them.
OrderParamsPlainSort(d) == SortByKey(d)

\* _order_params(data)
order_params(d) ==
    SortByKey(SelectSeq(d, NotSignature)) \o
        (IF InDict(d, SIGNATURE) THEN <<<<SIGNATURE, Item(d, SIGNATURE)>>>> ELSE <<>>)

\* "&".join(k=v for (k, v) in params)
RECURSIVE JoinParams(_)
JoinParams(params) ==
    IF params = <<>> THEN <<>>
    ELSE IF Len(params) = 1 THEN Head(params)[1] \o <<"=">> \o Format(Head(params)[2])
    ELSE Head(params)[1] \o <<"=">> \o Format(Head(params)[2]) \o <<"&">>
             \o JoinParams(Tail(params))

\* hmac.new(key, msg, sha256).hexdigest(): a text determined by the key and
\* the message, different for different keys or messages.
HmacSha256Hex(key, msg) == <<"h", "m", "a", "c", "(">> \o key \o <<",">> \o msg \o <<")">>

\* _generate_signature raises BinanceAPIException("Api secret not configured").
SignatureRaises(secret) == ~TruthyText(secret)

\* A signature over the parameters in insertion order.
GenerateSignatureAsInserted(secret, d) == HmacSha256Hex(secret[1], JoinParams(d))

\* _generate_signature(data), for a secret that is configured.
generate_signature(secret, d) == HmacSha256Hex(secret[1], JoinParams(order_params(d)))

-----------------------------------------------------------------------------
(* Calls of _order_params and _generate_signature on a parameter dict. *)

MaxApplied == 2

S1 == <<"s", "1">>

\* api_secret: None, the empty text, a secret.
Secrets == {None, Some(<<>>), Some(S1)}

ParamKeys == {SYMBOL, SIGNATURE, TIMESTAMP}

ParamValues == {PStr(BTC), PNone}

DistinctKeys(d) == \A j, k \in 1..Len(d) : d[j][1] = d[k][1] => j = k

\* The dicts over the keys and values above, in every insertion order.
ParamDicts ==
    {d \in UNION {[1..n -> ParamKeys \X ParamValues] : n \in 0..Cardinality(ParamKeys)} :
        DistinctKeys(d)}

\* The same entries in every insertion order.
Reinserted(d) == {[j \in 1..Len(d) |-> d[f[j]]] : f \in Permutations(1..Len(d))}

\* A caller builds the entries of data in some insertion order and calls
\* _order_params on them.
CallOrderParams(p) ==
    /\ Len(applied) < MaxApplied
    /\ applied' = Append(applied, [fn |-> "order", arg |-> p, raised |-> FALSE,
                                   out |-> order_params(p)])
    /\ UNCHANGED <<api_key, api_secret, sigterm, csession, closed, response, call, outcome,
                   sent, nsent, ncalls, report, data>>
    /\ UNCHANGED fetcherVars

\* A caller calls _order_params on dict(result) of the previous call.
CallOrderParamsAgain ==
    /\ Len(applied) < MaxApplied
    /\ applied # <<>>
    /\ applied[Len(applied)].fn = "order"
    /\ applied' = Append(applied, [fn |-> "again", arg |-> applied[Len(applied)].out,
                                   raised |-> FALSE,
                                   out |-> order_params(applied[Len(applied)].out)])
    /\ UNCHANGED <<api_key, api_secret, sigterm, csession, closed, response, call, outcome,
                   sent, nsent, ncalls, report, data>>
    /\ UNCHANGED fetcherVars

\* A caller builds the entries of data in some insertion order and calls
\* _generate_signature on them.
CallGenerateSignature(p) ==
    /\ Len(applied) < MaxApplied
    /\ applied' = Append(applied,
                         IF SignatureRaises(api_secret)
                         THEN [fn |-> "sign", arg |-> p, raised |-> TRUE, out |-> <<>>]
                         ELSE [fn |-> "sign", arg |-> p, raised |-> FALSE,
                               out |-> generate_signature(api_secret, p)])
    /\ UNCHANGED <<api_key, api_secret, sigterm, csession, closed, response, call, outcome,
                   sent, nsent, ncalls, report, data>>
    /\ UNCHANGED fetcherVars

-----------------------------------------------------------------------------
(* BinanceRestClient._request and stop. *)

MaxCalls == 2

ts_offset == 0

K1 == <<"k", "1">>

K2 == <<"k", "2">>

S2 == <<"s", "2">>

\* The credentials the constructor is given: none, or a key and a secret.
Credentials == {<<None, None>>, <<Some(K1), Some(S1)>>}

\* str(api_key), the value of the X-MBX-APIKEY header.
KeyHeader(key) == IF key = None THEN <<"N", "o", "n", "e">> ELSE key[1]

\* _init_session(): a new session carrying the API key as a header.
InitSession(id, key) == Some([id |-> id, open |-> TRUE, header |-> KeyHeader(key)])

\* session.close()
Close(s) == IF s = None THEN None ELSE Some([s[1] EXCEPT !.open = FALSE])

\* The api_key and api_secret keyword arguments of one call: absent, or both.
NoCreds == [given |-> FALSE, key |-> None, secret |-> None]

CredOptions == {NoCreds, [given |-> TRUE, key |-> Some(K2), secret |-> Some(S2)]}

\* A test that never takes the credentials of the call.
UseCredsNever(c) == FALSE

\* if api_key and api_secret:
UseCreds(c) == c.given /\ TruthyText(c.key) /\ TruthyText(c.secret)

\* The data keyword argument of one call: absent (<<>>) or a dict.
DataOptions ==
    {None,
     Some(<<>>),
     Some(<<<<SYMBOL, PStr(BTC)>>>>),
     Some(<<<<TYPE, PStr(LIMIT)>>, <<SYMBOL, PStr(BTC)>>>>),
     Some(<<<<SYMBOL, PStr(BTC)>>, <<END_TIME, PNone>>>>),
     Some(<<<<TIMESTAMP, PInt(5)>>, <<SYMBOL, PStr(BTC)>>>>)}

Methods == {"get", "post"}

\* EXCHANGE_SETTINGS[Exchange.BINANCE].api_base_uri
API_URL ==
    <<"h", "t", "t", "p", "s", ":", "/", "/", "a", "p", "i", ".", "b", "i", "n", "a", "n",
      "c", "e", ".", "c", "o", "m", "/", "a", "p", "i">>

API_VERSION == <<"v", "3">>

\* The uri with the version left out.
CreateApiUriNoVersion(path) == API_URL \o <<"/">> \o path

\* _create_api_uri(path), with the default version.
create_api_uri(path) == API_URL \o <<"/">> \o API_VERSION \o <<"/">> \o path

EXCHANGE_INFO == <<"e", "x", "c", "h", "a", "n", "g", "e", "I", "n", "f", "o">>

PING == <<"p", "i", "n", "g">>

TIME == <<"t", "i", "m", "e">>

ORDER == <<"o", "r", "d", "e", "r">>

\* The uri a caller of _request passes.
Uris == {create_api_uri(ORDER)}

\* What the session's method does with the request: it raises, or it returns
\* a response with a status code, a body that is JSON or is not, an
\* X-MBX-USED-WEIGHT header (optional) and a Date header ("ok" parses,
\* "bad" does not, "missing" is no header).
NoReply == [status |-> 0, json |-> FALSE, raised |-> TRUE, weight |-> None, date |-> "missing"]

Reply(st, j, w, d) == [status |-> st, json |-> j, raised |-> FALSE, weight |-> w, date |-> d]

\* The replies over the status codes at the ends of the success range.
Replies ==
    {NoReply} \cup {Reply(st, j, Some(1), "ok") : st \in {199, 200, 299, 300}, j \in BOOLEAN}

\* The replies over the headers.
HeaderReplies ==
    {NoReply} \cup {Reply(st, j, w, d) : st \in {200, 300}, j \in BOOLEAN,
                                         w \in {None, Some(7)},
                                         d \in {"ok", "bad", "missing"}}

\* The data dict with a signature but no timestamp.
SignedDataNoTimestamp(secret, d, t) ==
    AssignItem(d, SIGNATURE, PStr(generate_signature(secret, d)))

\* kwargs["data"] after the timestamp and the signature have been set.
SignedData(secret, d, t) ==
    LET stamped == AssignItem(d, TIMESTAMP, PInt(t + ts_offset))
    IN  AssignItem(stamped, SIGNATURE, PStr(generate_signature(secret, stamped)))

HasValue(e) == e[2].t # "none"

\* The ordered list with every entry kept.
KeepNone(params) == params

\* The ordered list with the entries of value None deleted.
RemoveNone(params) == SelectSeq(params, HasValue)

\* A classification that raises the API error whatever the caller asked for.
HandleResponseAlwaysThrows(throw_exception, r) ==
    IF ~(200 <= r.status /\ r.status < 300) THEN "api_error"
    ELSE IF r.json THEN "returned"
    ELSE "request_error"

\* _handle_response: how the call ends on a response.
HandleResponse(throw_exception, r) ==
    IF throw_exception /\ ~(200 <= r.status /\ r.status < 300) THEN "api_error"
    ELSE IF r.json THEN "returned"
    ELSE "request_error"

\* The HTTP request handed to the session's method for the keyword arguments
\* as they stand at that point: d is kwargs.get("data") as it is then, <<>>
\* when absent.
HttpRequest(method, uri, force_params, d, s) ==
    LET truthy == d # None /\ d[1] # <<>>
        params == IF truthy THEN RemoveNone(order_params(d[1])) ELSE <<>>
        asQuery == truthy /\ (method = "get" \/ force_params)
    IN  [method |-> method,
         uri |-> uri,
         where |-> IF asQuery THEN "params" ELSE IF d = None THEN "none" ELSE "data",
         params |-> params,
         query |-> IF asQuery THEN JoinParams(params) ELSE <<>>,
         header |-> s[1].header,
         session |-> s[1].id]

\* A stop check that never finds the client stopped.
AlreadyStoppedNever(flag) == FALSE

\* if self.sigterm is True: raise AlreadyStoppedError
AlreadyStopped(flag) == flag = TRUE

\* _request(method, uri, signed, force_params, throw_exception, **kwargs) as
\* called through the method via, with the keyword arguments data (kw) and
\* api_key, api_secret (c); when the request reaches the session, the
\* session's method answers with any of the replies.
Dispatch(via, method, uri, signed, force_params, throw_exception, kw, c, replies) ==
    /\ ncalls < MaxCalls
    /\ ncalls' = ncalls + 1
    /\ call' = Some([via |-> via, method |-> method, uri |-> uri, signed |-> signed,
                     force_params |-> force_params, throw_exception |-> throw_exception,
                     data |-> kw, creds |-> c])
    /\ UNCHANGED <<sigterm, data, applied>>
    /\ UNCHANGED fetcherVars
    /\ IF AlreadyStopped(sigterm)
       THEN /\ outcome' = "stopped"
            /\ UNCHANGED <<api_key, api_secret, csession, closed, response, sent, nsent>>
       ELSE LET key == IF UseCreds(c) THEN c.key ELSE api_key
                secret == IF UseCreds(c) THEN c.secret ELSE api_secret
                s == IF UseCreds(c) THEN InitSession(csession[1].id + 1, c.key) ELSE csession
            IN  /\ api_key' = key
                /\ api_secret' = secret
                /\ csession' = s
                /\ closed' = IF UseCreds(c) THEN closed \cup {csession[1].id} ELSE closed
                /\ IF signed /\ kw = None
                   THEN /\ outcome' = "key_error"
                        /\ UNCHANGED <<response, sent, nsent>>
                   ELSE IF signed /\ SignatureRaises(secret)
                   THEN /\ outcome' = "no_secret"
                        /\ UNCHANGED <<response, sent, nsent>>
                   ELSE /\ sent' = Some(HttpRequest(method, uri, force_params,
                                                    IF signed
                                                    THEN Some(SignedData(secret, kw[1], now))
                                                    ELSE kw,
                                                    s))
                        /\ nsent' = nsent + 1
                        /\ \E reply \in replies :
                               IF reply.raised
                               THEN /\ outcome' = "session_raised"
                                    /\ UNCHANGED response
                               ELSE /\ outcome' = HandleResponse(throw_exception, reply)
                                    /\ response' = Some([status |-> reply.status,
                                                         json |-> reply.json,
                                                         weight |-> reply.weight,
                                                         date |-> reply.date,
                                                         call |-> ncalls + 1])

\* A caller calls _request.
Request(method, uri, signed, force_params, throw_exception, kw, c, replies) ==
    /\ Dispatch("_request", method, uri, signed, force_params, throw_exception, kw, c,
                replies)
    /\ UNCHANGED report

\* The public methods that take no parameters of the request.
PublicApis == {"get_exchange_info", "get_symbol_info", "ping", "get_server_time"}

\* The endpoint path each of them passes to _get.
EndpointOf(api) ==
    IF api \in {"get_exchange_info", "get_symbol_info"} THEN EXCHANGE_INFO
    ELSE IF api = "ping" THEN PING
    ELSE TIME

\* The data keyword argument each of them passes to _get: get_exchange_info
\* passes its empty **params, the others pass none.
DataOf(api) == IF api = "get_exchange_info" THEN Some(<<>>) ELSE None

\* get_exchange_info(), get_symbol_info(symbol), ping(), get_server_time():
\* one call of _get, that is of _request with method "get", unsigned.
CallPublic(api, replies) ==
    /\ Dispatch(api, "get", create_api_uri(EndpointOf(api)), FALSE, FALSE, TRUE, DataOf(api),
                NoCreds, replies)
    /\ UNCHANGED report

\* req_weight_cost raised.
NoReport == [raised |-> TRUE, status |-> 0, weight |-> 0, dated |-> FALSE]

\* A report that takes the default weight whatever the header says.
WeightCostDefault(r) ==
    IF r = None \/ r[1].date = "missing" THEN NoReport
    ELSE [raised |-> FALSE, status |-> r[1].status, weight |-> 0, dated |-> r[1].date = "ok"]

\* What req_weight_cost makes of self.response: it raises AttributeError while
\* the attribute is unset and TypeError on strptime(None, ...) when the
\* response has no Date header; a Date that does not parse gives timestamp 0.0.
WeightCost(r) ==
    IF r = None \/ r[1].date = "missing" THEN NoReport
    ELSE [raised |-> FALSE,
          status |-> r[1].status,
          weight |-> IF r[1].weight = None THEN 0 ELSE r[1].weight[1],
          dated |-> r[1].date = "ok"]

\* req_weight_cost(new_req): with new_req a call of get_exchange_info first,
\* whose exception, if any, leaves the method.
ReqWeightCost(new_req, replies) ==
    IF new_req
    THEN /\ Dispatch("req_weight_cost", "get", create_api_uri(EXCHANGE_INFO), FALSE, FALSE,
                     TRUE, Some(<<>>), NoCreds, replies)
         /\ report' = IF outcome' = "returned" THEN Some(WeightCost(response'))
                      ELSE Some(NoReport)
    ELSE /\ report' = Some(WeightCost(response))
         /\ UNCHANGED <<api_key, api_secret, sigterm, csession, closed, response, call,
                        outcome, sent, nsent, ncalls, data, applied>>
         /\ UNCHANGED fetcherVars

\* stop()
Stop ==
    /\ sigterm' = TRUE
    /\ csession' = Close(csession)
    /\ closed' = closed \cup {csession[1].id}
    /\ UNCHANGED <<api_key, api_secret, response, call, outcome, sent, nsent, ncalls,
                   report, data, applied>>
    /\ UNCHANGED fetcherVars

-----------------------------------------------------------------------------
(* The specifications. *)

\* No client has been constructed and no parameter dict is held.
NoClient ==
    /\ api_key = None
    /\ api_secret = None
    /\ sigterm = FALSE
    /\ csession = None
    /\ closed = {}
    /\ response = None
    /\ call = None
    /\ outcome = "none"
    /\ sent = None
    /\ nsent = 0
    /\ ncalls = 0
    /\ report = None
    /\ data = <<>>
    /\ applied = <<>>

\* No fetcher has been constructed.
NoFetcher ==
    /\ pairs = <<ETH_USDT>>
    /\ fromTime = DefaultTime
    /\ toTime = DefaultTime
    /\ n_mins = DefaultMins
    /\ pair_retries = MaxRetries
    /\ init_backoff = 1
    /\ now = Clock0
    /\ fpc = "init"
    /\ window = None
    /\ session = "none"
    /\ tpc = [i \in 1..Len(pairs) |-> "none"]
    /\ attempt = [i \in 1..Len(pairs) |-> 0]
    /\ log = [i \in 1..Len(pairs) |-> <<>>]
    /\ body = [i \in 1..Len(pairs) |-> NoBody]
    /\ responses = <<>>
    /\ before = <<>>
    /\ donorOf = <<>>

\* A fetcher with the default window arguments, about to be constructed.
Init ==
    /\ pairs \in PairLists
    /\ fromTime = DefaultTime
    /\ toTime = DefaultTime
    /\ n_mins = DefaultMins
    /\ pair_retries \in 0..MaxRetries
    /\ init_backoff \in 1..MaxBackoff
    /\ now = Clock0
    /\ fpc = "init"
    /\ window = None
    /\ session = "none"
    /\ tpc = [i \in 1..Len(pairs) |-> "none"]
    /\ attempt = [i \in 1..Len(pairs) |-> 0]
    /\ log = [i \in 1..Len(pairs) |-> <<>>]
    /\ body = [i \in 1..Len(pairs) |-> NoBody]
    /\ responses = <<>>
    /\ before = <<>>
    /\ donorOf = <<>>
    /\ NoClient

Next ==
    \/ Construct
    \/ FetchPairsKlines
    \/ \E i \in Tasks : Start(i)
    \/ \E i \in Tasks : \E b \in Bodies : Respond(i, b)
    \/ \E i \in Tasks : Timeout(i)
    \/ \E i \in Tasks : OtherError(i)
    \/ \E i \in Tasks : WakeUp(i)
    \/ GatherReturn
    \/ GatherRaise
    \/ FillMissingPairs

Spec == Init /\ [][Next]_vars

\* The indices a task can have.
TaskIds == UNION {1..Len(pl) : pl \in PairLists}

\* A step of the task of index i: its start, the end of its attempt in flight
\* (an answer, a timeout or an error) or the end of its backoff sleep.
TaskStep(i) ==
    /\ i \in Tasks
    /\ \/ Start(i)
       \/ \E b \in Bodies : Respond(i, b)
       \/ Timeout(i)
       \/ OtherError(i)
       \/ WakeUp(i)

\* The event loop runs every task that can run, every attempt ends and every
\* sleep elapses; the coroutine awaiting gather resumes once gather is done.
Fairness ==
    /\ \A i \in TaskIds : WF_vars(TaskStep(i))
    /\ WF_vars(GatherReturn)
    /\ WF_vars(GatherRaise)

SpecFair == Init /\ [][Next]_vars /\ Fairness

\* The window arguments of the constructor, over all their combinations.
InitRange ==
    /\ pairs = <<ETH_USDT>>
    /\ fromTime \in OptFrom
    /\ toTime \in OptTo
    /\ n_mins \in OptMins
    /\ pair_retries = MaxRetries
    /\ init_backoff = 1
    /\ now \in Clocks
    /\ fpc = "init"
    /\ window = None
    /\ session = "none"
    /\ tpc = [i \in 1..Len(pairs) |-> "none"]
    /\ attempt = [i \in 1..Len(pairs) |-> 0]
    /\ log = [i \in 1..Len(pairs) |-> <<>>]
    /\ body = [i \in 1..Len(pairs) |-> NoBody]
    /\ responses = <<>>
    /\ before = <<>>
    /\ donorOf = <<>>
    /\ NoClient

NextRange ==
    \/ Construct
    \/ \E nm \in OptMins : AssignNMins(nm)
    \/ CallGetBackwardsRange
    \/ FetchPairsKlines

SpecRange == InitRange /\ [][NextRange]_vars

\* A client with some secret, and a parameter dict in some insertion order.
InitParams ==
    /\ NoFetcher
    /\ api_key = None
    /\ api_secret \in Secrets
    /\ sigterm = FALSE
    /\ csession = None
    /\ closed = {}
    /\ response = None
    /\ call = None
    /\ outcome = "none"
    /\ sent = None
    /\ nsent = 0
    /\ ncalls = 0
    /\ report = None
    /\ data \in ParamDicts
    /\ applied = <<>>

NextParams ==
    \/ \E p \in Reinserted(data) : CallOrderParams(p)
    \/ CallOrderParamsAgain
    \/ \E p \in Reinserted(data) : CallGenerateSignature(p)

SpecParams == InitParams /\ [][NextParams]_vars

\* A client as its constructor leaves it, for either set of credentials.
InitClient ==
    /\ NoFetcher
    /\ \E cr \in Credentials :
           /\ api_key = cr[1]
           /\ api_secret = cr[2]
           /\ csession = InitSession(1, cr[1])
    /\ closed = {}
    /\ sigterm = FALSE
    /\ response = None
    /\ call = None
    /\ outcome = "none"
    /\ sent = None
    /\ nsent = 0
    /\ ncalls = 0
    /\ report = None
    /\ data = <<>>
    /\ applied = <<>>

NextClient ==
    \/ \E method \in Methods, uri \in Uris, signed \in BOOLEAN, force_params \in BOOLEAN,
          throw_exception \in BOOLEAN, kw \in DataOptions, c \in CredOptions :
           Request(method, uri, signed, force_params, throw_exception, kw, c, Replies)
    \/ Stop

SpecClient == InitClient /\ [][NextClient]_vars

\* The public methods without parameters, req_weight_cost and stop.
NextApi ==
    \/ \E api \in PublicApis : CallPublic(api, HeaderReplies)
    \/ \E new_req \in BOOLEAN : ReqWeightCost(new_req, HeaderReplies)
    \/ Stop

SpecApi == InitClient /\ [][NextApi]_vars

-----------------------------------------------------------------------------
(* What the claims speak of. *)

Last(s) == s[Len(s)]

\* The places of log l that hold an event of kind e.
Places(l, e) == {j \in 1..Len(l) : l[j].ev = e}

\* The number of attempts the task of pairs[i] has made.
AttemptsMade(i) == Cardinality(Places(log[i], "attempt"))

\* The 0-based index of the attempt that is the latest one at place j of l.
AttemptAt(l, j) == Cardinality({x \in 1..j : l[x].ev = "attempt"}) - 1

Distinct(s) == \A a, b \in 1..Len(s) : s[a] = s[b] => a = b

\* The task of pairs[i] failed: it ran out of attempts or met a non-timeout error.
Failed(i) == Finished(i) /\ log[i] # <<>> /\ Last(log[i]).ev \in {"exhausted", "error"}

\* Every attempt the finished task of pairs[i] made ended in a timeout.
AlwaysTimedOut(i) ==
    /\ Finished(i)
    /\ \A j \in Places(log[i], "attempt") :
           j < Len(log[i]) /\ log[i][j + 1].ev = "timeout"

Min(a, b) == IF a < b THEN a ELSE b

-----------------------------------------------------------------------------
(* C1 *)

\* C1: when fetch_pairs_klines returns for a list of N distinct pairs, the map
\* has exactly N entries, one per requested pair, whatever mix of successes,
\* exhausted timeouts and other errors the pairs met, and every failed pair
\* maps to the empty series.
C1_BatchComplete ==
    (fpc = "returned" /\ Distinct(pairs)) =>
        /\ Len(responses) = Len(pairs)
        /\ Keys(responses) = Elems(pairs)
        /\ \A i \in Tasks : Failed(i) => Get(responses, pairs[i]) = <<>>

\* A returned batch of three pairs: one exhausted, one in error, one fetched.
C1_Witness ==
    /\ fpc = "returned"
    /\ Len(pairs) = 3
    /\ \E i, j, k \in Tasks :
           /\ Last(log[i]).ev = "exhausted" /\ AttemptsMade(i) > 0
           /\ Last(log[j]).ev = "error"
           /\ Last(log[k]).ev = "ok" /\ Get(responses, pairs[k]) # <<>>

-----------------------------------------------------------------------------
(* C2 *)

\* C2: a finished task all of whose attempts timed out has made exactly
\* pair_retries attempts, has not raised, and has recorded the empty series
\* for its pair.
C2_RetryBound ==
    \A i \in Tasks :
        (AlwaysTimedOut(i) /\ fpc \in {"gather", "returned", "fetch_raised"}) =>
            /\ AttemptsMade(i) = pair_retries
            /\ tpc[i] = "done"
            /\ HasKey(responses, pairs[i])
            /\ Get(responses, pairs[i]) = <<>>

\* A task that timed out on both of its two attempts and is finished.
C2_Witness ==
    \E i \in Tasks :
        /\ pair_retries = 2
        /\ AlwaysTimedOut(i)
        /\ Cardinality(Places(log[i], "timeout")) = 2

-----------------------------------------------------------------------------
(* C3 *)

\* C3 as claimed: every attempt k a task makes is directly preceded by a
\* backoff wait of length init_backoff * 2^k.
C3_WaitBeforeAttempt ==
    \A i \in Tasks : \A j \in Places(log[i], "attempt") :
        /\ j > 1
        /\ log[i][j - 1].ev = "wait"
        /\ log[i][j - 1].w = init_backoff * Pow2(AttemptAt(log[i], j))

\* C3 as amended: no wait precedes attempt 0; every wait directly follows the
\* timeout of an attempt k and has length init_backoff * 2^k, so that the wait
\* preceding attempt k >= 1 has length init_backoff * 2^(k-1).
C3_WaitAfterTimeout ==
    \A i \in Tasks :
        /\ \A j \in Places(log[i], "wait") :
               /\ j > 1
               /\ log[i][j - 1].ev = "timeout"
               /\ log[i][j].w = init_backoff * Pow2(AttemptAt(log[i], j))
        /\ \A j \in Places(log[i], "timeout") :
               j < Len(log[i]) /\ log[i][j + 1].ev = "wait"
        /\ \A j \in Places(log[i], "attempt") :
               IF AttemptAt(log[i], j) = 0
               THEN j = 1
               ELSE /\ log[i][j - 1].ev = "wait"
                    /\ log[i][j - 1].w = init_backoff * Pow2(AttemptAt(log[i], j) - 1)

\* A task that has waited twice, the second time after its attempt 1.
C3_Witness ==
    \E i \in Tasks :
        /\ Cardinality(Places(log[i], "wait")) = 2
        /\ init_backoff = 2
        /\ Last(log[i]).ev = "wait"
        /\ Last(log[i]).w = 4

-----------------------------------------------------------------------------
(* C4 *)

\* A non-timeout error is the last thing its task does: no attempt and no wait
\* follows it, the task is done and its pair maps to the empty series.
C4_ErrorEndsTask ==
    \A i \in Tasks : \A j \in Places(log[i], "error") :
        /\ j = Len(log[i])
        /\ tpc[i] = "done"
        /\ HasKey(responses, pairs[i])
        /\ fpc \in {"gather", "returned", "fetch_raised"} =>
               Get(responses, pairs[i]) = <<>>

\* The step in which a task meets a non-timeout error changes nothing of the
\* other tasks, of their entries, of the session or of the caller.
C4_OthersUnaffected ==
    \A i \in Tasks :
        (log'[i] # log[i] /\ Last(log'[i]).ev = "error") =>
            /\ \A j \in Tasks \ {i} :
                   /\ tpc'[j] = tpc[j]
                   /\ attempt'[j] = attempt[j]
                   /\ log'[j] = log[j]
                   /\ HasKey(responses, pairs[j]) =>
                          Get(responses', pairs[j]) = Get(responses, pairs[j])
            /\ fpc' = fpc
            /\ session' = session

\* C4: a task whose attempt fails with an error other than a timeout makes no
\* further attempt and no backoff wait and records the empty series for its
\* pair, and the tasks of the other pairs are left as they were.
C4_ErrorAbandons == [](C4_ErrorEndsTask) /\ [][C4_OthersUnaffected]_vars

\* A task ended by an error on its second attempt while another task is still
\* waiting for its answer.
C4_Witness ==
    \E i, j \in Tasks :
        /\ i # j
        /\ log[i] # <<>>
        /\ Last(log[i]).ev = "error"
        /\ Last(log[i]).k = 1
        /\ tpc[j] = "request"

-----------------------------------------------------------------------------
(* C5 *)

\* C5: no per-pair failure leaves the batch as an exception: whatever body a
\* pair receives, its task does not raise and fetch_pairs_klines does not fail.
C5_NoFailurePropagates ==
    /\ \A i \in Tasks : tpc[i] # "raised"
    /\ fpc # "fetch_raised"

-----------------------------------------------------------------------------
(* C6 *)

\* C6: fetch_pairs_klines has ended, by returning or by failing, only if every
\* per-pair task has finished, and fill_missing_pairs has run after a fetch
\* only if every per-pair task has finished.
C6_EndsAfterAllTasks ==
    (session = "closed" /\ fpc \in {"returned", "fetch_raised", "filled", "fill_raised"}) =>
        \A i \in Tasks : Finished(i)

-----------------------------------------------------------------------------
(* C7 *)

\* C7: get_backwards_range returns the explicit window whenever fromTime and
\* toTime were both supplied, whatever n_mins is, and the window derived from
\* the clock and n_mins otherwise.
C7_ExplicitWindowWins ==
    fpc = "ranged" =>
        IF Truthy(fromTime) /\ Truthy(toTime)
        THEN window = <<fromTime[1], toTime[1]>>
        ELSE window = <<(now - HalfSecond) - n_mins[1] * MinuteMs, now - HalfSecond>>

-----------------------------------------------------------------------------
(* C8 *)

\* C8: fill_missing_pairs completes without an error only if it found the
\* reference pair in the map with a series that is not empty.
C8_ReferenceRequired ==
    fpc = "filled" => (HasKey(before, REF) /\ Get(before, REF) # <<>>)

-----------------------------------------------------------------------------
(* C9 *)

\* The series the claim describes: the closes of the donor over the closes of
\* the reference, with the close times of the reference.
CloseOverClose(donor, ref) ==
    [i \in 1..Min(Len(donor), Len(ref)) |->
        <<RoundDiv9(donor[i][4], ref[i][4]), ref[i][5]>>]

\* C9: after fill_missing_pairs has run with a reference series that is not
\* empty, row i of every synthesized series is the donor's close over the
\* reference's close, rounded to 9 decimals, with the reference's closeTime.
C9_CloseOverClose ==
    (fpc = "filled" /\ Get(before, REF) # <<>>) =>
        \A j \in 1..Len(donorOf) :
            Get(responses, donorOf[j].pair)
                = CloseOverClose(Get(before, donorOf[j].donor), Get(before, REF))

-----------------------------------------------------------------------------
(* C10 *)

\* C10: every donor fill_missing_pairs used, when it ran with a reference
\* series that is not empty, is a pair with a series that is not empty and
\* with the same base asset as the pair it was used for.
C10_DonorSharesBase ==
    (fpc = "filled" /\ Get(before, REF) # <<>>) =>
        \A j \in 1..Len(donorOf) :
            /\ Get(before, donorOf[j].donor) # <<>>
            /\ SplitFirst(donorOf[j].donor) = SplitFirst(donorOf[j].pair)

-----------------------------------------------------------------------------
(* C11 *)

\* No other entry of map d is a donor for the empty pair p: none has a series
\* that is not empty and an identifier that contains the base asset of p.
NoDonorFor(d, p) ==
    \A j \in 1..Len(d) :
        (d[j].pair # p /\ d[j].series # <<>>) => ~Contains(SplitFirst(p), d[j].pair)

\* C11: when fill_missing_pairs runs on a map that holds the reference pair, it
\* raises no error, and every pair that was empty and had no donor among the
\* other pairs is still empty afterwards.
C11_NoDonorStaysEmpty ==
    (fpc \in {"filled", "fill_raised"} /\ HasKey(before, REF)) =>
        /\ fpc = "filled"
        /\ \A j \in 1..Len(before) :
               (before[j].series = <<>> /\ NoDonorFor(before, before[j].pair)) =>
                   Get(responses, before[j].pair) = <<>>

\* The pass has run on ETH-USDT and BTC-USDT fetched and ADA-ETH empty, which
\* has no donor.
C11_Witness ==
    /\ fpc = "filled"
    /\ pairs = <<ETH_USDT, BTC_USDT, ADA_ETH>>
    /\ Get(before, ETH_USDT) # <<>>
    /\ Get(before, BTC_USDT) # <<>>
    /\ Get(before, ADA_ETH) = <<>>
    /\ NoDonorFor(before, ADA_ETH)

-----------------------------------------------------------------------------
(* C12 *)

\* C12: fill_missing_pairs keeps the keys of the map and their order, and
\* leaves every entry that was not empty as it was; a pass that raises leaves
\* the whole map as it was.
C12_FetchedUntouched ==
    /\ fpc = "filled" =>
           /\ Len(responses) = Len(before)
           /\ \A j \in 1..Len(before) :
                  /\ responses[j].pair = before[j].pair
                  /\ before[j].series # <<>> => responses[j].series = before[j].series
    /\ fpc = "fill_raised" => responses = before

\* The pass has rewritten an empty entry of a map with two fetched entries.
C12_Witness ==
    /\ fpc = "filled"
    /\ Len(before) = 3
    /\ \E j \in 1..3 :
           /\ before[j].series = <<>>
           /\ responses[j].series # <<>>
           /\ \A h \in (1..3) \ {j} : before[h].series # <<>>

-----------------------------------------------------------------------------
(* C13 *)

\* The fetcher holds neither an explicit window (fromTime and toTime both set
\* and not 0) nor a lookback duration (n_mins set and not 0).
NeitherWindowNorDuration ==
    /\ ~(fromTime # None /\ fromTime # Some(0) /\ toTime # None /\ toTime # Some(0))
    /\ (n_mins = None \/ n_mins = Some(0))

\* A step that constructs the fetcher, or resolves the window of a constructed
\* one (by get_backwards_range or within fetch_pairs_klines), while it holds
\* neither a window nor a duration, fails, and opens no session and creates
\* no task.
C13_Step ==
    NeitherWindowNorDuration =>
        /\ (fpc = "init" /\ fpc' # "init") => fpc' = "ctor_raised"
        /\ (fpc = "ready" /\ fpc' # "ready") =>
               /\ fpc' \in {"range_raised", "fetch_raised"}
               /\ window' = None
               /\ session' = "none"
               /\ tpc' = tpc
               /\ log' = log

\* C13: constructing a fetcher with neither an explicit window nor a lookback
\* duration fails, and so does resolving the window of a fetcher in that
\* configuration, before any request is issued.
C13_NeitherFails == [][C13_Step]_vars

\* fetch_pairs_klines has failed on a fetcher that holds neither a window nor
\* a duration, with no session opened.
C13_Witness ==
    /\ fpc = "fetch_raised"
    /\ NeitherWindowNorDuration
    /\ session = "none"
    /\ \A i \in Tasks : tpc[i] = "none"

-----------------------------------------------------------------------------
(* C14 *)

\* C14: during a fetch each per-pair task writes exactly one key of the result
\* map, its own pair, exactly once: a task that has ended has left an entry
\* under its own pair, and the map holds no key that is not the pair of a task
\* that has ended.
C14_OneKeyPerTask ==
    fpc \in {"gather", "returned", "fetch_raised"} =>
        /\ \A i \in Tasks : Finished(i) => HasKey(responses, pairs[i])
        /\ \A j \in 1..Len(responses) :
               \E i \in Tasks : Finished(i) /\ pairs[i] = responses[j].pair

-----------------------------------------------------------------------------
(* C15 *)

\* The session is open exactly while fetch_pairs_klines awaits its tasks, and
\* closed once the call has returned or has failed after opening it.
C15_OpenOnlyDuringCall ==
    /\ session = "open" <=> fpc = "gather"
    /\ fpc \in {"returned", "filled", "fill_raised"} /\ session # "none" => session = "closed"
    /\ fpc = "fetch_raised" => session \in {"none", "closed"}

\* A session is opened only by the step that starts the call, and a closed
\* session is not opened again.
C15_OpenedOnce ==
    /\ (session # "open" /\ session' = "open") =>
           (session = "none" /\ fpc = "ready" /\ fpc' = "gather")
    /\ session = "closed" => session' = "closed"

\* C15: the HTTP session of fetch_pairs_klines is opened once at the start of
\* the call and is closed when the call ends, whether it returns or fails.
C15_SessionScoped == []C15_OpenOnlyDuringCall /\ [][C15_OpenedOnce]_vars

\* The call has failed through gather and its session is closed.
C15_Witness ==
    /\ fpc = "fetch_raised"
    /\ session = "closed"
    /\ \E i \in Tasks : tpc[i] = "raised"

-----------------------------------------------------------------------------
(* C16 *)

\* The entries of a dict or of a list of tuples, as a set.
EntrySet(d) == {d[j] : j \in 1..Len(d)}

\* The calls of _order_params among the calls made.
OrderCalls == {n \in 1..Len(applied) : applied[n].fn \in {"order", "again"}}

\* out holds the entries of arg sorted by key, the signature entry apart,
\* which is last; every entry of arg that is no signature is in out once.
SortedSignatureLast(arg, out) ==
    /\ Len(out) = Len(arg)
    /\ \A j \in 1..Len(arg) :
           arg[j][1] # SIGNATURE => Cardinality({k \in 1..Len(out) : out[k] = arg[j]}) = 1
    /\ \A k \in 1..(Len(out) - 1) :
           /\ out[k][1] # SIGNATURE
           /\ out[k + 1][1] # SIGNATURE => StrLess(out[k][1], out[k + 1][1])
    /\ InDict(arg, SIGNATURE) => out[Len(out)] = <<SIGNATURE, Item(arg, SIGNATURE)>>

\* C16: _order_params returns the parameters sorted lexicographically by key,
\* except that a signature entry, when present, is the last element whatever
\* its position in the input; every non-signature entry appears exactly once.
C16_SortedSignatureLast ==
    \A n \in OrderCalls : SortedSignatureLast(applied[n].arg, applied[n].out)

\* _order_params was called on a dict whose signature was inserted first and
\* whose other keys were inserted out of order.
C16_Witness ==
    \E n \in OrderCalls :
        /\ Len(applied[n].arg) = Cardinality(ParamKeys)
        /\ applied[n].arg[1][1] = SIGNATURE
        /\ StrLess(applied[n].arg[3][1], applied[n].arg[2][1])
        /\ applied[n].out # applied[n].arg

-----------------------------------------------------------------------------
(* C17 *)

\* C17: canonicalization is deterministic and idempotent: _order_params gives
\* the same sequence for every insertion order of the same key/value set, and
\* applied again to the entries of its own result it gives that same sequence.
C17_DeterministicIdempotent ==
    \A m, n \in OrderCalls :
        /\ EntrySet(applied[m].arg) = EntrySet(applied[n].arg) =>
               applied[m].out = applied[n].out
        /\ applied[n].fn = "again" => applied[n].out = applied[n].arg

\* _order_params was called on a dict that is not in canonical order, and then
\* again on the entries of its result.
C17_Witness ==
    /\ Len(applied) = 2
    /\ applied[1].fn = "order"
    /\ applied[2].fn = "again"
    /\ Len(applied[1].arg) = Cardinality(ParamKeys)
    /\ applied[2].arg # applied[1].arg

-----------------------------------------------------------------------------
(* C18 *)

\* The calls of _generate_signature among the calls made.
SignCalls == {n \in 1..Len(applied) : applied[n].fn = "sign"}

\* C18: for a fixed secret and a fixed set of parameter key/value pairs,
\* _generate_signature returns the same signature on every call, whatever the
\* insertion order of the parameters and whatever calls came before; it
\* changes neither the secret nor the parameters.
C18_SignatureDeterministic ==
    /\ \A m, n \in SignCalls :
           EntrySet(applied[m].arg) = EntrySet(applied[n].arg) =>
               /\ applied[m].raised = applied[n].raised
               /\ applied[m].out = applied[n].out
    /\ \A n \in SignCalls : applied[n].raised <=> ~TruthyText(api_secret)

\* Two signatures were computed with a configured secret over the same
\* parameters in two different insertion orders.
C18_Witness ==
    /\ Len(applied) = 2
    /\ SignCalls = {1, 2}
    /\ ~applied[1].raised
    /\ applied[1].arg # applied[2].arg
    /\ Len(applied[1].arg) = Cardinality(ParamKeys)

-----------------------------------------------------------------------------
(* C19 *)

\* A step that is a call of _request on a client that has not been stopped.
RequestStep == ncalls' = ncalls + 1 /\ ~sigterm

\* A signed call made while no API secret is configured ends in the error of
\* _generate_signature, hands no request to the session and leaves the
\* retained response as it was.
C19_Step ==
    (RequestStep /\ call'[1].signed /\ (api_secret' = None \/ api_secret' = Some(<<>>))) =>
        /\ outcome' = "no_secret"
        /\ nsent' = nsent
        /\ sent' = sent
        /\ response' = response

\* C19: a signed request made while no API secret is configured fails with an
\* authentication-configuration error before any HTTP request is sent and is
\* not retried; the retained last response is unchanged by the failed call.
C19_NoSecretFails == [][C19_Step]_vars

-----------------------------------------------------------------------------
(* C20 *)

\* The last call of _request handed a request to the session.
RequestSent == outcome \in {"returned", "api_error", "request_error", "session_raised"}

\* The parameters of the request the last call transmitted.
SentParams == sent[1].params

\* The places of the parameters that hold key k.
ParamPlaces(k) == {j \in 1..Len(SentParams) : SentParams[j][1] = k}

\* The caller of the last call supplied a parameter of key k.
Supplied(k) == call[1].data # None /\ InDict(call[1].data[1], k)

\* C20 as stated: in every signed request as transmitted, timestamp and
\* signature are the last two parameters, in that order, whatever other
\* parameter keys the call carries; an unsigned request carries neither (read
\* here as: neither, unless the caller supplied it as a parameter of its own).
C20_TimestampSignatureLastTwo ==
    RequestSent =>
        IF call[1].signed
        THEN /\ Len(SentParams) >= 2
             /\ SentParams[Len(SentParams) - 1][1] = TIMESTAMP
             /\ SentParams[Len(SentParams)][1] = SIGNATURE
        ELSE /\ ~Supplied(TIMESTAMP) => ParamPlaces(TIMESTAMP) = {}
             /\ ~Supplied(SIGNATURE) => ParamPlaces(SIGNATURE) = {}

\* C20 amended: in every signed request as transmitted, signature is the last
\* parameter and the timestamp of the call is among the parameters before it,
\* once, in its place in the order of the keys: it is second to last exactly
\* when the call carries no non-null parameter whose key sorts after
\* "timestamp". An unsigned request carries the caller's non-null parameters
\* and nothing else.
C20_SignatureLastTimestampSorted ==
    RequestSent =>
        IF call[1].signed
        THEN /\ ParamPlaces(SIGNATURE) = {Len(SentParams)}
             /\ \E j \in 1..(Len(SentParams) - 1) :
                    /\ ParamPlaces(TIMESTAMP) = {j}
                    /\ SentParams[j][2] = PInt(now)
                    /\ j = Len(SentParams) - 1 <=>
                           \A e \in EntrySet(call[1].data[1]) :
                               ~(HasValue(e) /\ StrLess(TIMESTAMP, e[1]))
             /\ \A j \in 1..(Len(SentParams) - 2) :
                    StrLess(SentParams[j][1], SentParams[j + 1][1])
        ELSE /\ call[1].data = None => SentParams = <<>>
             /\ call[1].data # None =>
                    EntrySet(SentParams) = {e \in EntrySet(call[1].data[1]) : HasValue(e)}

\* A signed request was transmitted whose caller supplied a key that sorts
\* after "timestamp": it stands between the timestamp and the signature.
C20_Witness ==
    /\ RequestSent
    /\ call[1].signed
    /\ Len(SentParams) >= 3
    /\ SentParams[Len(SentParams) - 1][1] = TYPE
    /\ SentParams[Len(SentParams) - 2][1] = TIMESTAMP

-----------------------------------------------------------------------------
(* C21 *)

\* C21: no parameter whose value is None is present in the request as
\* transmitted, in the query string or in the body, for signed and unsigned
\* requests alike.
C21_NoNullTransmitted ==
    RequestSent =>
        /\ \A j \in 1..Len(SentParams) : SentParams[j][2] # PNone
        /\ sent[1].where = "params" => sent[1].query = JoinParams(SentParams)

\* A request was transmitted for a call whose caller supplied a parameter of
\* value None next to one that has a value.
C21_Witness ==
    /\ RequestSent
    /\ call[1].data # None
    /\ \E e \in EntrySet(call[1].data[1]) : e[2] = PNone
    /\ SentParams # <<>>

-----------------------------------------------------------------------------
(* C22 *)

\* The session answered the request of the last call with a response.
Answered == outcome \in {"returned", "api_error", "request_error"}

\* C22: _handle_response classifies every response: a status in 200..299
\* yields the decoded JSON body; any other status raises BinanceAPIException
\* when throw_exception is true and otherwise returns the body without an API
\* error; a body that does not decode as JSON, where the body is decoded,
\* raises BinanceRequestException.
C22_ResponseClassified ==
    Answered =>
        /\ response # None
        /\ response[1].call = ncalls
        /\ LET success == response[1].status \in 200..299
               decodes == response[1].json
               throws == call[1].throw_exception
           IN  /\ (success /\ decodes) => outcome = "returned"
               /\ (~success /\ throws) => outcome = "api_error"
               /\ (~success /\ ~throws /\ decodes) => outcome = "returned"
               /\ (~decodes /\ (success \/ ~throws)) => outcome = "request_error"

\* A response of status 300 with a JSON body was returned to a caller that
\* had opted out of the API error.
C22_Witness ==
    /\ Answered
    /\ response[1].call = ncalls
    /\ response[1].status = 300
    /\ response[1].json
    /\ ~call[1].throw_exception
    /\ outcome = "returned"

-----------------------------------------------------------------------------
(* C23 *)

\* The characters of a text before its first comma.
RECURSIVE BeforeComma(_)
BeforeComma(text) ==
    IF text = <<>> \/ Head(text) = "," THEN <<>>
    ELSE <<Head(text)>> \o BeforeComma(Tail(text))

\* The key under which a digest was computed.
DigestKey(digest) == BeforeComma(SubSeq(digest, Len(<<"h", "m", "a", "c", "(">>) + 1, Len(digest)))

\* The call of this step supplied both api_key and api_secret, neither empty.
SuppliesCredentials ==
    /\ call'[1].creds.given
    /\ call'[1].creds.key \notin {None, Some(<<>>)}
    /\ call'[1].creds.secret \notin {None, Some(<<>>)}

\* A call that supplies credentials makes them the client's, closes the
\* session and creates a new one with the new key as its header; a request it
\* sends goes through the new session with the new key and, when signed, is
\* signed with the new secret.
C23_Step ==
    (RequestStep /\ SuppliesCredentials) =>
        /\ api_key' = call'[1].creds.key
        /\ api_secret' = call'[1].creds.secret
        /\ csession[1].id \in closed'
        /\ csession'[1].id \notin closed' \cup {csession[1].id}
        /\ csession'[1].open
        /\ csession'[1].header = call'[1].creds.key[1]
        /\ nsent' # nsent =>
               /\ sent'[1].session = csession'[1].id
               /\ sent'[1].header = call'[1].creds.key[1]
               /\ call'[1].signed =>
                      DigestKey(sent'[1].params[Len(sent'[1].params)][2].s)
                          = call'[1].creds.secret[1]

-----------------------------------------------------------------------------
(* C24 *)

\* A step keeps the retained response as it was unless the step is a call
\* whose request the session answered, and then the retained response is the
\* response of that call.
C24_Retained ==
    IF ncalls' = ncalls + 1 /\ outcome' \in {"returned", "api_error", "request_error"}
    THEN response' # None /\ response'[1].call = ncalls'
    ELSE response' = response

\* A step of req_weight_cost without new_req, taken while a response is
\* retained, reports the status code and the weight of that response.
C24_Reported ==
    (ncalls' = ncalls /\ report' # report /\ response # None) =>
        /\ ~report'[1].raised
        /\ report'[1].status = response[1].status
        /\ report'[1].weight = IF response[1].weight = None THEN 0 ELSE response[1].weight[1]

\* C24: after any sequence of dispatcher calls the response the client
\* retains is the raw response of the most recent call that performed an HTTP
\* exchange, whether that call returned decoded data or raised an API error,
\* and req_weight_cost without new_req reports the status code and weight of
\* exactly that response.
C24_RetainedAndReported == [][C24_Retained /\ C24_Reported]_vars

-----------------------------------------------------------------------------
(* C25 *)

\* The address the claim gives for each public call.
C25_Address(api) ==
    API_URL \o <<"/", "v", "3", "/">> \o
        (IF api = "ping" THEN <<"p", "i", "n", "g">>
         ELSE IF api = "get_server_time" THEN <<"t", "i", "m", "e">>
         ELSE <<"e", "x", "c", "h", "a", "n", "g", "e", "I", "n", "f", "o">>)

\* A step that is a parameterless public call on a client that has not been
\* stopped.
C25_PublicCall ==
    /\ ncalls' = ncalls + 1
    /\ ~sigterm
    /\ call'[1].via \in {"get_exchange_info", "get_symbol_info", "ping", "get_server_time"}

C25_Step ==
    C25_PublicCall =>
        /\ nsent' = nsent + 1
        /\ sent'[1].method = "get"
        /\ sent'[1].uri = C25_Address(call'[1].via)

\* C25: a parameterless public call (get_exchange_info, get_symbol_info,
\* ping, get_server_time) on a client that has not been stopped performs
\* exactly one HTTP GET, addressed to api_url + "/v3/" + the endpoint path,
\* and no other HTTP request.
C25_OneGetToEndpoint == [][C25_Step]_vars

\* get_server_time has sent its request, the second of this client.
C25_Witness ==
    /\ call # None /\ call[1].via = "get_server_time"
    /\ outcome \in {"returned", "api_error", "request_error", "session_raised"}
    /\ nsent = 2

-----------------------------------------------------------------------------
(* C26 *)

\* The attempts of task i that have started and not ended.
InFlight(i) ==
    Cardinality({j \in 1..Len(log[i]) : log[i][j].ev = "attempt"})
    - Cardinality({j \in 1..Len(log[i]) : log[i][j].ev \in {"timeout", "ok", "raise", "error"}})

\* Task i starts an attempt in this step.
StartsAttempt(i) ==
    /\ Len(log'[i]) > Len(log[i])
    /\ log'[i][Len(log'[i])].ev = "attempt"

\* The attempt task i starts is attempt 0 of a task that had made none, or it
\* is attempt k+1 of a task that was asleep in the backoff wait that followed
\* the timeout of attempt k, and nothing was added to the log but the attempt.
C26_Step ==
    \A i \in DOMAIN log' :
        /\ InFlight(i)' \in {0, 1}
        /\ (i \in DOMAIN log /\ StartsAttempt(i)) =>
               LET n == Len(log[i])
                   k == log'[i][Len(log'[i])].k
               IN  /\ Len(log'[i]) = n + 1
                   /\ InFlight(i) = 0
                   /\ IF k = 0
                      THEN tpc[i] = "created" /\ n = 0
                      ELSE /\ tpc[i] = "sleep"
                           /\ n >= 3
                           /\ log[i][n] = Ev("wait", k - 1, Backoff(k - 1))
                           /\ log[i][n - 1] = Ev("timeout", k - 1, 0)
                           /\ log[i][n - 2] = Ev("attempt", k - 1, 0)

\* C26: for each pair at most one request attempt is in flight at any time:
\* attempt k+1 starts only after attempt k has ended in a timeout and the
\* backoff wait that follows it has elapsed.
C26_SequentialAttempts == [][C26_Step]_vars

\* A task's second attempt is in flight while another task's first is.
C26_Witness ==
    \E i, j \in DOMAIN log :
        /\ i # j
        /\ tpc[i] = "request" /\ attempt[i] = 1
        /\ tpc[j] = "request" /\ attempt[j] = 0

-----------------------------------------------------------------------------
(* C27 *)

\* C27: the series fill_missing_pairs synthesizes for an empty pair has
\* min(len(donor), q) rows, where q is the length of the reference series, and
\* the pass never indexes the reference series out of range for any
\* combination of donor and reference lengths: every row index of a
\* synthesized series is an index of the reference series.
C27_SynthesizedLength ==
    fpc = "filled" =>
        \A j \in 1..Len(donorOf) :
            LET made == Get(responses, donorOf[j].pair)
                donor == Get(before, donorOf[j].donor)
                q == Len(Get(before, REF))
            IN  /\ Len(made) = Min(Len(donor), q)
                /\ \A i \in 1..Len(made) : i \in 1..q

\* A pair was filled from a donor that is longer than the reference series.
C27_Witness ==
    /\ fpc = "filled"
    /\ \E j \in 1..Len(donorOf) :
           /\ Len(Get(before, donorOf[j].donor)) > Len(Get(before, REF))
           /\ Len(Get(before, REF)) > 0

-----------------------------------------------------------------------------
(* C28 *)

\* A step taken by a stopped client leaves it stopped, and if the step is a
\* request it raises AlreadyStoppedError, sends nothing and leaves the
\* credentials, the session and the retained response as they were.
C28_Step ==
    sigterm =>
        /\ sigterm'
        /\ ncalls' = ncalls + 1 =>
               /\ outcome' = "stopped"
               /\ nsent' = nsent
               /\ sent' = sent
               /\ api_key' = api_key
               /\ api_secret' = api_secret
               /\ csession' = csession
               /\ response' = response

\* C28: once stop() has been called the client stays stopped: every later
\* request through _request raises AlreadyStoppedError without sending an
\* HTTP request and without changing the credentials or the retained
\* response, and no operation of the client makes it usable again.
C28_StaysStopped == [][C28_Step]_vars

\* A client that had sent a request and kept its response was stopped, and a
\* later request that brought credentials of its own was refused.
C28_Witness ==
    /\ sigterm
    /\ outcome = "stopped"
    /\ nsent = 1
    /\ response # None
    /\ call # None /\ call[1].creds # NoCreds /\ call[1].creds.key # api_key

-----------------------------------------------------------------------------
(* C29 *)

\* The outcomes d of the fetch as the map holds them when the tasks complete
\* in the order of self.pairs.
RECURSIVE InPairsOrder(_, _)
InPairsOrder(d, i) ==
    IF i > Len(pairs) THEN <<>>
    ELSE (IF HasKey(d, pairs[i]) THEN <<[pair |-> pairs[i], series |-> Get(d, pairs[i])]>>
          ELSE <<>>)
         \o InPairsOrder(d, i + 1)

\* What fill_missing_pairs makes of the map d.
Filled(d) == FillFrom(d, MissingPairs(d), Get(d, REF), 1)

\* C29: the map returned by fetch_and_fill_klines is a function of the
\* per-pair fetch outcomes alone: for fixed outcomes, every interleaving and
\* completion order of the per-pair tasks yields the same final series for
\* every pair, including the pairs filled by reconstruction. Stated against
\* the run in which the tasks complete in the order of self.pairs: the final
\* series of every pair is the one that run ends with for the same outcomes.
C29_OrderIndependent ==
    (fpc = "filled" /\ Keys(before) = Elems(pairs)) =>
        \A i \in 1..Len(pairs) :
            Get(responses, pairs[i]) = Get(Filled(InPairsOrder(before, 1)), pairs[i])

-----------------------------------------------------------------------------
(* C30 *)

\* The transmitted parameters without their last entry.
SentButLast == SubSeq(SentParams, 1, Len(SentParams) - 1)

\* C30: for every signed request, the string over which the signature is
\* computed equals the transmitted parameter string with its trailing
\* signature entry removed (same parameters, same order, same values),
\* including when some supplied parameters are null: the transmitted
\* signature is the digest, under the client's secret, of the transmitted
\* parameters before it.
C30_SignedStringIsTransmitted ==
    (RequestSent /\ call[1].signed) =>
        /\ Len(SentParams) >= 1
        /\ SentParams[Len(SentParams)][1] = SIGNATURE
        /\ SentParams[Len(SentParams)][2]
               = PStr(HmacSha256Hex(api_secret[1], JoinParams(SentButLast)))

-----------------------------------------------------------------------------
(* C31 *)

\* C31: no per-pair task issues or is still waiting on a request on the
\* shared session after fetch_pairs_klines has closed that session, in any
\* interleaving, including when one task ends with an error while others are
\* still running: while the session is closed no task has a request in
\* flight.
C31_NoRequestOnClosedSession ==
    session = "closed" => \A i \in DOMAIN tpc : tpc[i] # "request"

-----------------------------------------------------------------------------
(* C32 *)

\* C32: assuming every request attempt eventually ends (in a response, an
\* error or a timeout) and every backoff wait eventually elapses, every
\* per-pair task eventually records a result for its pair and
\* fetch_pairs_klines eventually returns, for any finite pair_retries and any
\* number of pairs.
C32_EventuallyReturns ==
    (fpc = "gather") ~>
        (fpc = "returned" /\ \A i \in Tasks : HasKey(responses, pairs[i]))

====
